---- MODULE Spec2Model ----
(***************************************************************************)
(* Model of the bookmark dashboard's state synchronisation:                *)
(*   - DashboardClient.tsx: the per-tab replica (bookmarks state, realtime *)
(*     channel, fetchBookmarks, handleAdd, handleDelete);                  *)
(*   - supabase-schema.sql: the bookmarks table and its RLS policies;      *)
(*   - dashboard/page.tsx: the server-side initial load;                   *)
(*   - UserMenu.tsx and DashboardClient's onAuthStateChange listener: the  *)
(*     sign-out flow (specification SpecAuth);                             *)
(*   - AddBookmarkForm.tsx is not part of the source tree: its insert      *)
(*     flow is modelled from the design document (applyLocalInsert).       *)
(* One replica = one mounted DashboardClient (one browser tab).            *)
(***************************************************************************)
EXTENDS Integers, Sequences, FiniteSets, TLC

\* ---------------------------------------------------------------- bounds
MaxIds == 2        \* rows ever created (ids and creation times are 1..MaxIds)
MaxInFlight == 2   \* calls awaiting their response plus events awaiting their handler

Replicas == {"t1", "t2"}
Owners == {"u1", "u2"}

\* Users are interchangeable and so are tabs: t1 is always a tab of u1, t2 a
\* tab of either user (it is the tab that changes owner).
UsersOf(r) == IF r = "t1" THEN {"u1"} ELSE Owners

NoUser == "none"
NoId == 0

\* ------------------------------------------------------------ data model
\* A row of public.bookmarks; title, url and favicon play no part in the merge.
Bookmark(i, u, t) == [id |-> i, user_id |-> u, created_at |-> t]

Rows == {Bookmark(i, u, i) : i \in 1..(MaxIds + 1), u \in Owners}

\* Row-level security: a row is visible to (and writable by) its owner only.
RlsVisible(uid, row) == uid = row.user_id

\* ------------------------------------------------------- pure operators
RECURSIVE OrderDesc(_)
\* .order("created_at", { ascending: false }) over a set of rows
OrderDesc(S) ==
  IF S = {} THEN << >>
  ELSE LET top == CHOOSE x \in S : \A y \in S : y.created_at <= x.created_at
       IN <<top>> \o OrderDesc(S \ {top})

SelectBookmarksUnscoped(rows, uid) == OrderDesc(rows)

\* .from("bookmarks").select("*").eq("user_id", uid).order(created_at desc),
\* evaluated under the SELECT policy for the session user uid
SelectBookmarks(rows, uid) ==
  OrderDesc({b \in rows : b.user_id = uid /\ RlsVisible(uid, b)})

\* prev.some((b) => b.id === id)
Some(prev, i) == \E k \in 1..Len(prev) : prev[k].id = i

\* prev.filter((b) => b.id !== id)
FilterOut(prev, i) == SelectSeq(prev, LAMBDA b : b.id # i)

\* number of elements of a snapshot that carry id i
Count(prev, i) == Cardinality({k \in 1..Len(prev) : prev[k].id = i})

HandleAddAtTail(prev, newBookmark) ==
  IF Some(prev, newBookmark.id) THEN prev ELSE prev \o <<newBookmark>>

\* handleAdd's state updater
HandleAdd(prev, newBookmark) ==
  IF Some(prev, newBookmark.id) THEN prev ELSE <<newBookmark>> \o prev

InsertMergeNoDedup(prev, newBookmark) == <<newBookmark>> \o prev

\* the INSERT listener's state updater (payload.new carries an id)
InsertMerge(prev, newBookmark) ==
  IF Some(prev, newBookmark.id) THEN prev ELSE <<newBookmark>> \o prev

DeleteMergeSplice(prev, i) ==
  IF Some(prev, i) THEN FilterOut(prev, i) ELSE SubSeq(prev, 1, Len(prev) - 1)

\* the DELETE listener's state updater (payload.old carries an id)
DeleteMerge(prev, i) == FilterOut(prev, i)

\* ------------------------------------------------------ realtime server
NoFilter == "nofilter"

\* the payload shapes the change feed can produce for one event
ShapesOf(kind) ==
  IF kind = "INSERT" THEN {"full", "empty"} ELSE {"full", "keyonly", "empty"}

\* The payload of a postgres_changes event as subscriber uid receives it: the
\* row when the feed sends it and the SELECT policy lets uid see it, else the
\* redacted form (the primary key at most).
Payload(row, shape, uid) ==
  IF shape = "full" /\ RlsVisible(uid, row) THEN row
  ELSE IF shape = "keyonly" THEN Bookmark(row.id, NoUser, 0)
  ELSE Bookmark(NoId, NoUser, 0)

\* filter: `user_id=eq.${user.id}` on both postgres_changes listeners
PostgresChangesFilter(kind, uid) == uid

\* The server evaluates the filter on the payload it is about to send: a
\* payload without the column cannot match and the event is not sent.
FilterMatches(filter, payload) ==
  filter = NoFilter \/ payload.user_id = filter

\* supabase.channel(`bookmarks-${user.id}`)
ChannelTopic(uid) == <<"bookmarks", uid>>

\* the listeners the realtime effect registers with .on(...)
ChannelListeners ==
  {<<"postgres_changes", "INSERT">>, <<"postgres_changes", "DELETE">>}

\* supabase.removeChannel(channel): the client drops one channel of the topic
RemoveChannel(cs, topic) ==
  IF \E k \in 1..Len(cs) : cs[k] = topic
    THEN LET k == CHOOSE j \in 1..Len(cs) :
                    cs[j] = topic /\ \A l \in 1..(j - 1) : cs[l] # topic
         IN SubSeq(cs, 1, k - 1) \o SubSeq(cs, k + 1, Len(cs))
    ELSE cs

\* the connection indicator: isConnected ? "Live" : "Connecting..."
Indicator(connected) == IF connected THEN "Live" ELSE "Connecting..."

\* status === "SUBSCRIBED"
IsSubscribed(status) == status = "SUBSCRIBED"

LinkStatuses == {"SUBSCRIBED", "CHANNEL_ERROR", "TIMED_OUT", "CLOSED"}

\* ------------------------------------------------------------- the state
VARIABLES
  db,          \* rows of public.bookmarks
  nextId,      \* next id / creation time the store hands out
  mounted,     \* mounted[r]: the tab shows a DashboardClient
  user,        \* user[r]: props.user.id of the tab
  bookmarks,   \* bookmarks[r]: the bookmarks state (the replica's snapshot)
  isConnected, \* isConnected[r]
  chan,        \* chan[r]: the link: "none", "joining", "SUBSCRIBED" or "down"
  effDeps,     \* effDeps[r]: dependencies the realtime effect last ran with
  resubs,      \* resubs[r]: the channel was removed and re-created in this mount
  channels,    \* channels[r]: topics of the channels the tab's client holds
  inbox,       \* inbox[r]: events sent to the tab, not yet handled
  fetches,     \* fetches[r]: fetchBookmarks calls in flight
  deletes,     \* deletes[r]: ids whose delete call is in flight
  inserts,     \* inserts[r]: rows whose insert call is in flight
  last,        \* history: the last step other than a link status change
  signingOut,   \* signingOut[r]: UserMenu's signingOut state
  signOutCalls, \* signOutCalls[r]: the tab's auth.signOut() call is in flight
  authEvents,   \* authEvents[r]: SIGNED_OUT events sent to the tab's listener
  pushes,       \* history: router.push("/") calls the tab has issued
  signedOut     \* history: signedOut[u]: successful signOut calls of u's session

\* the state of the sign-out flow
authVars == <<signingOut, signOutCalls, authEvents, pushes, signedOut>>

vars == <<db, nextId, mounted, user, bookmarks, isConnected, chan, effDeps,
          resubs, channels, inbox, fetches, deletes, inserts, last, authVars>>

\* calls awaiting their response and events awaiting their handler, all tabs
RECURSIVE InFlightOf(_)
InFlightOf(R) ==
  IF R = {} THEN 0
  ELSE LET r == CHOOSE x \in R : TRUE
       IN Len(inbox[r]) + Len(fetches[r]) + Cardinality(deletes[r])
            + Cardinality(inserts[r]) + InFlightOf(R \ {r})

InFlight == InFlightOf(Replicas)

\* A step label: the operation, its replica and the id it is about; what the
\* step gave out (live: the replicas of the row's user whose link was live at
\* the write, lost: replicas whose change hint the filter dropped, unheard:
\* replicas whose channel had no listener for the broadcast, error: a failure
\* message was shown); and what it found (had: the id was in the snapshot
\* before the step, own: the handled event announces a write of this replica,
\* stale / fresh / post: the history flags of the applied fetch, switch: the tab
\* mounts for another user than the one it showed before).
Step(op, r, i) ==
  [op |-> op, r |-> r, id |-> i, live |-> {}, lost |-> {}, unheard |-> {},
   error |-> FALSE,
   had |-> FALSE, own |-> FALSE, stale |-> FALSE, fresh |-> FALSE, post |-> FALSE,
   switch |-> FALSE]

RealtimeDepsWithState(uid, bm) == <<"supabase", uid, bm>>

\* the dependency array of the realtime effect: [supabase, user.id]
RealtimeDeps(uid, bm) == <<"supabase", uid>>

Init ==
  /\ db = {}
  /\ nextId = 1
  /\ mounted = [r \in Replicas |-> TRUE]
  /\ user \in {f \in [Replicas -> Owners] : \A r \in Replicas : f[r] \in UsersOf(r)}
  /\ bookmarks = [r \in Replicas |-> SelectBookmarks(db, user[r])]
  /\ isConnected = [r \in Replicas |-> FALSE]
  /\ chan = [r \in Replicas |-> "joining"]
  /\ effDeps = [r \in Replicas |-> RealtimeDeps(user[r], bookmarks[r])]
  /\ resubs = [r \in Replicas |-> FALSE]
  /\ channels = [r \in Replicas |-> <<ChannelTopic(user[r])>>]
  /\ inbox = [r \in Replicas |-> << >>]
  /\ fetches = [r \in Replicas |-> << >>]
  /\ deletes = [r \in Replicas |-> {}]
  /\ inserts = [r \in Replicas |-> {}]
  /\ last = Step("init", "t1", NoId)
  /\ signingOut = [r \in Replicas |-> FALSE]
  /\ signOutCalls = [r \in Replicas |-> FALSE]
  /\ authEvents = [r \in Replicas |-> 0]
  /\ pushes = [r \in Replicas |-> 0]
  /\ signedOut = [u \in Owners |-> 0]

\* setBookmarks(bm) on replica r, the render that follows and the effects of
\* that render: the realtime effect runs its cleanup (removeChannel) and its
\* body (channel + subscribe) only when its dependencies changed.
SetBookmarks(r, bm) ==
  /\ bookmarks' = [bookmarks EXCEPT ![r] = bm]
  /\ IF RealtimeDeps(user[r], bm) = effDeps[r]
       THEN UNCHANGED <<effDeps, chan, resubs, channels>>
       ELSE /\ effDeps' = [effDeps EXCEPT ![r] = RealtimeDeps(user[r], bm)]
            /\ channels' = [channels EXCEPT ![r] =
                              Append(RemoveChannel(@, ChannelTopic(user[r])),
                                     ChannelTopic(user[r]))]
            /\ chan' = [chan EXCEPT ![r] = "joining"]
            /\ resubs' = [resubs EXCEPT ![r] = TRUE]

\* --------------------------------------------------- change-feed delivery
\* replica r has a joined channel with a listener for this kind of event
Listening(r, kind) ==
  /\ mounted[r]
  /\ IsSubscribed(chan[r])
  /\ <<"postgres_changes", kind>> \in ChannelListeners

\* the mounted replicas of user uid whose channel is joined
LiveFor(uid) ==
  {r \in Replicas : mounted[r] /\ IsSubscribed(chan[r]) /\ user[r] = uid}

\* the event for `row` reaches r's listener
Receives(r, kind, row, shape) ==
  /\ Listening(r, kind)
  /\ FilterMatches(PostgresChangesFilter(kind, user[r]), Payload(row, shape, user[r]))

\* the event for a row of r's own user is dropped by r's filter
Loses(r, kind, row, shape) ==
  /\ Listening(r, kind)
  /\ row.user_id = user[r]
  /\ ~FilterMatches(PostgresChangesFilter(kind, user[r]), Payload(row, shape, user[r]))

\* the change feed sends one event to every listening replica (`from`, the
\* replica whose call wrote the row, is history and not part of the payload)
Emit(kind, row, shape, from) ==
  /\ InFlight - 1 + Cardinality({r \in Replicas : Receives(r, kind, row, shape)})
       <= MaxInFlight
  /\ inbox' = [r \in Replicas |->
                IF Receives(r, kind, row, shape)
                  THEN Append(inbox[r], [kind |-> kind, from |-> from,
                                         payload |-> Payload(row, shape, user[r])])
                  ELSE inbox[r]]

\* replicas whose joined channel has the topic but no listener for the broadcast
Unheard(topic) ==
  {r \in Replicas :
     /\ mounted[r] /\ IsSubscribed(chan[r]) /\ ChannelTopic(user[r]) = topic
     /\ <<"broadcast", "bookmark-added">> \notin ChannelListeners}

\* ------------------------------------------------------ fetchBookmarks
\* Calls in flight are kept in issue order. Six fields are history: `why`
\* is the id whose failed delete issued the call (NoId for a change hint),
\* `stale` says a later fetchBookmarks call of the same replica has been
\* issued since, `fresh` says the store has not changed since it answered,
\* `post` says the store has not changed since the call was issued, `added`
\* and `removed` are the ids the replica has added (handleAdd) and removed
\* (handleDelete) since the call was issued.
Supersede(fs) == [k \in 1..Len(fs) |-> [fs[k] EXCEPT !.stale = TRUE]]

Outdate(fs) == [k \in 1..Len(fs) |-> [fs[k] EXCEPT !.fresh = FALSE, !.post = FALSE]]

NoteAdded(fs, i) == [k \in 1..Len(fs) |-> [fs[k] EXCEPT !.added = @ \cup {i}]]

NoteRemoved(fs, i) == [k \in 1..Len(fs) |-> [fs[k] EXCEPT !.removed = @ \cup {i}]]

Without(fs, k) == SubSeq(fs, 1, k - 1) \o SubSeq(fs, k + 1, Len(fs))

\* fetchBookmarks(): the query is sent; the await suspends the caller
IssueFetch(r, why) ==
  /\ fetches' = [fetches EXCEPT ![r] =
                   Append(Supersede(@), [served |-> FALSE, rows |-> << >>, why |-> why,
                                         stale |-> FALSE, fresh |-> FALSE,
                                         post |-> TRUE, added |-> {},
                                         removed |-> {}])]

\* the store answers a fetch with the rows of the replica's user, newest first
FetchServe(r) ==
  \E k \in 1..Len(fetches[r]) :
    /\ ~fetches[r][k].served
    /\ fetches' = [fetches EXCEPT ![r][k] =
                     [@ EXCEPT !.served = TRUE, !.rows = SelectBookmarks(db, user[r]),
                               !.fresh = TRUE]]
    /\ last' = Step("FetchServe", r, NoId)
    /\ UNCHANGED <<db, nextId, mounted, user, bookmarks, isConnected, chan, effDeps,
                   resubs, channels, inbox, deletes, inserts,
                   authVars>>

FetchReturnMerging(r) ==
  \E k \in 1..Len(fetches[r]) :
    /\ fetches[r][k].served
    /\ fetches' = [fetches EXCEPT ![r] = Without(@, k)]
    /\ SetBookmarks(r, fetches[r][k].rows \o bookmarks[r])
    /\ last' = [Step("FetchReturn", r, fetches[r][k].why) EXCEPT
                  !.stale = fetches[r][k].stale, !.fresh = fetches[r][k].fresh,
                  !.post = fetches[r][k].post]
    /\ UNCHANGED <<db, nextId, mounted, user, isConnected, inbox, deletes, inserts,
                   authVars>>

\* the awaited query resolves with data: if (data) setBookmarks(data)
FetchReturn(r) ==
  \E k \in 1..Len(fetches[r]) :
    /\ fetches[r][k].served
    /\ fetches' = [fetches EXCEPT ![r] = Without(@, k)]
    /\ SetBookmarks(r, fetches[r][k].rows)
    /\ last' = [Step("FetchReturn", r, fetches[r][k].why) EXCEPT
                  !.stale = fetches[r][k].stale, !.fresh = fetches[r][k].fresh,
                  !.post = fetches[r][k].post]
    /\ UNCHANGED <<db, nextId, mounted, user, isConnected, inbox, deletes, inserts,
                   authVars>>

FetchFailClearing(r) ==
  \E k \in 1..Len(fetches[r]) :
    /\ ~fetches[r][k].served
    /\ fetches' = [fetches EXCEPT ![r] = Without(@, k)]
    /\ SetBookmarks(r, << >>)
    /\ last' = Step("FetchFail", r, NoId)
    /\ UNCHANGED <<db, nextId, mounted, user, isConnected, inbox, deletes, inserts,
                   authVars>>

\* the awaited query resolves without data (network or authorization error)
FetchFail(r) ==
  \E k \in 1..Len(fetches[r]) :
    /\ ~fetches[r][k].served
    /\ fetches' = [fetches EXCEPT ![r] = Without(@, k)]
    /\ last' = Step("FetchFail", r, NoId)
    /\ UNCHANGED <<db, nextId, mounted, user, bookmarks, isConnected, chan, effDeps,
                   resubs, channels, inbox, deletes, inserts,
                   authVars>>

\* ------------------------------------------------------ realtime handlers
HandleEventRefetching(r) ==
  /\ mounted[r]
  /\ inbox[r] # << >>
  /\ LET e == Head(inbox[r]) IN
       /\ inbox' = [inbox EXCEPT ![r] = Tail(@)]
       /\ last' = [Step(e.kind, r, e.payload.id) EXCEPT
                     !.had = Some(bookmarks[r], e.payload.id), !.own = (e.from = r)]
       /\ IF e.payload.id # NoId
            THEN /\ SetBookmarks(r, IF e.kind = "INSERT"
                                      THEN InsertMerge(bookmarks[r], e.payload)
                                      ELSE DeleteMerge(bookmarks[r], e.payload.id))
                 /\ IF e.kind = "DELETE" THEN IssueFetch(r, NoId) ELSE UNCHANGED fetches
            ELSE /\ IssueFetch(r, NoId)
                 /\ UNCHANGED <<bookmarks, effDeps, chan, resubs, channels>>
  /\ UNCHANGED <<db, nextId, mounted, user, isConnected, deletes, inserts,
                   authVars>>

HandleEventBlocked(r) ==
  /\ mounted[r]
  /\ inbox[r] # << >>
  /\ fetches[r] = << >> /\ deletes[r] = {} /\ inserts[r] = {}
  /\ LET e == Head(inbox[r]) IN
       /\ inbox' = [inbox EXCEPT ![r] = Tail(@)]
       /\ last' = [Step(e.kind, r, e.payload.id) EXCEPT
                     !.had = Some(bookmarks[r], e.payload.id), !.own = (e.from = r)]
       /\ IF e.payload.id # NoId
            THEN /\ SetBookmarks(r, IF e.kind = "INSERT"
                                      THEN InsertMerge(bookmarks[r], e.payload)
                                      ELSE DeleteMerge(bookmarks[r], e.payload.id))
                 /\ UNCHANGED fetches
            ELSE /\ IssueFetch(r, NoId)
                 /\ UNCHANGED <<bookmarks, effDeps, chan, resubs, channels>>
  /\ UNCHANGED <<db, nextId, mounted, user, isConnected, deletes, inserts,
                   authVars>>

\* the postgres_changes listeners of DashboardClient, run on the oldest event
HandleEvent(r) ==
  /\ mounted[r]
  /\ inbox[r] # << >>
  /\ LET e == Head(inbox[r]) IN
       /\ inbox' = [inbox EXCEPT ![r] = Tail(@)]
       /\ last' = [Step(e.kind, r, e.payload.id) EXCEPT
                     !.had = Some(bookmarks[r], e.payload.id), !.own = (e.from = r)]
       /\ IF e.payload.id # NoId
            THEN /\ SetBookmarks(r, IF e.kind = "INSERT"
                                      THEN InsertMerge(bookmarks[r], e.payload)
                                      ELSE DeleteMerge(bookmarks[r], e.payload.id))
                 /\ UNCHANGED fetches
            ELSE /\ IssueFetch(r, NoId)
                 /\ UNCHANGED <<bookmarks, effDeps, chan, resubs, channels>>
  /\ UNCHANGED <<db, nextId, mounted, user, isConnected, deletes, inserts,
                   authVars>>

\* the channel state a subscribe status leaves the link in
LinkAfter(status) == IF IsSubscribed(status) THEN "SUBSCRIBED" ELSE "down"

LinkEventClearing(r) ==
  \E status \in LinkStatuses :
    /\ mounted[r]
    /\ chan[r] # "none"
    /\ chan[r] # LinkAfter(status)
    /\ chan' = [chan EXCEPT ![r] = LinkAfter(status)]
    /\ isConnected' = [isConnected EXCEPT ![r] = IsSubscribed(status)]
    /\ bookmarks' = [bookmarks EXCEPT ![r] = IF IsSubscribed(status) THEN @ ELSE << >>]
    /\ UNCHANGED <<db, nextId, mounted, user, effDeps, resubs, channels, inbox,
                   fetches, deletes, inserts, last,
                   authVars>>

LinkEventResync(r) ==
  \E status \in LinkStatuses :
    /\ mounted[r]
    /\ chan[r] # "none"
    /\ chan[r] # LinkAfter(status)
    /\ chan' = [chan EXCEPT ![r] = LinkAfter(status)]
    /\ isConnected' = [isConnected EXCEPT ![r] = IsSubscribed(status)]
    /\ IF IsSubscribed(status) /\ InFlight < MaxInFlight
         THEN IssueFetch(r, NoId)
         ELSE UNCHANGED fetches
    /\ UNCHANGED <<db, nextId, mounted, user, bookmarks, effDeps, resubs, channels, inbox,
                   deletes, inserts, last,
                   authVars>>

\* the subscribe callback: setIsConnected(status === "SUBSCRIBED")
LinkEvent(r) ==
  \E status \in LinkStatuses :
    /\ mounted[r]
    /\ chan[r] # "none"
    /\ chan[r] # LinkAfter(status)
    /\ chan' = [chan EXCEPT ![r] = LinkAfter(status)]
    /\ isConnected' = [isConnected EXCEPT ![r] = IsSubscribed(status)]
    /\ UNCHANGED <<db, nextId, mounted, user, bookmarks, effDeps, resubs, channels, inbox,
                   fetches, deletes, inserts, last,
                   authVars>>

\* ------------------------------------------------------------- inserts
\* requestInsert: the candidate becomes a record that is shown at once
\* (onAdd = handleAdd) while the insert call is sent to the store
RequestInsert(r) ==
  /\ mounted[r]
  /\ nextId <= MaxIds
  /\ InFlight < MaxInFlight
  /\ LET row == Bookmark(nextId, user[r], nextId) IN
       /\ SetBookmarks(r, HandleAdd(bookmarks[r], row))
       /\ inserts' = [inserts EXCEPT ![r] = @ \cup {row}]
       /\ fetches' = [fetches EXCEPT ![r] = NoteAdded(@, row.id)]
       /\ last' = Step("RequestInsert", r, row.id)
  /\ nextId' = nextId + 1
  /\ UNCHANGED <<db, mounted, user, isConnected, inbox, deletes,
                   authVars>>

\* the insert call succeeds: the row is stored, the change feed emits an
\* INSERT event and the form broadcasts the row on the owner's channel
InsertOk(r) ==
  \E row \in inserts[r], shape \in ShapesOf("INSERT") :
    /\ db' = db \cup {row}
    /\ inserts' = [inserts EXCEPT ![r] = @ \ {row}]
    /\ fetches' = [q \in Replicas |-> Outdate(fetches[q])]
    /\ Emit("INSERT", row, shape, r)
    /\ last' = [Step("InsertOk", r, row.id) EXCEPT
                  !.live = LiveFor(row.user_id),
                  !.lost = {q \in Replicas : Loses(q, "INSERT", row, shape)},
                  !.unheard = Unheard(ChannelTopic(row.user_id))]
    /\ UNCHANGED <<nextId, mounted, user, bookmarks, isConnected, chan, effDeps,
                   resubs, channels, deletes,
                   authVars>>

InsertFailNoRollback(r) ==
  \E row \in inserts[r] :
    /\ inserts' = [inserts EXCEPT ![r] = @ \ {row}]
    /\ mounted[r]
    /\ last' = [Step("InsertFail", r, row.id) EXCEPT !.error = TRUE]
    /\ UNCHANGED <<db, nextId, mounted, user, bookmarks, isConnected, chan, effDeps,
                   resubs, channels, inbox, fetches, deletes,
                   authVars>>

\* the insert call fails: the record is taken out again and the failure shown
InsertFail(r) ==
  \E row \in inserts[r] :
    /\ inserts' = [inserts EXCEPT ![r] = @ \ {row}]
    /\ mounted[r]
    /\ SetBookmarks(r, FilterOut(bookmarks[r], row.id))
    /\ last' = [Step("InsertFail", r, row.id) EXCEPT !.error = TRUE]
    /\ UNCHANGED <<db, nextId, mounted, user, isConnected, inbox, fetches, deletes,
                   authVars>>

\* ------------------------------------------------------------- deletes
HandleDeleteNoOptimistic(r) ==
  \E k \in 1..Len(bookmarks[r]) :
    LET i == bookmarks[r][k].id IN
      /\ mounted[r]
      /\ i \notin deletes[r]
      /\ InFlight < MaxInFlight
      /\ deletes' = [deletes EXCEPT ![r] = @ \cup {i}]
      /\ fetches' = [fetches EXCEPT ![r] = NoteRemoved(@, i)]
      /\ last' = Step("HandleDelete", r, i)
      /\ UNCHANGED <<db, nextId, mounted, user, bookmarks, isConnected, chan, effDeps,
                     resubs, channels, inbox, inserts,
                   authVars>>

\* handleDelete(id) up to its await: optimistic removal, delete call sent
HandleDelete(r) ==
  \E k \in 1..Len(bookmarks[r]) :
    LET i == bookmarks[r][k].id IN
      /\ mounted[r]
      /\ i \notin deletes[r]
      /\ InFlight < MaxInFlight
      /\ SetBookmarks(r, FilterOut(bookmarks[r], i))
      /\ deletes' = [deletes EXCEPT ![r] = @ \cup {i}]
      /\ fetches' = [fetches EXCEPT ![r] = NoteRemoved(@, i)]
      /\ last' = Step("HandleDelete", r, i)
      /\ UNCHANGED <<db, nextId, mounted, user, isConnected, inbox, inserts,
                   authVars>>

\* .delete().eq("id", id).eq("user_id", user.id) under the DELETE policy
DeleteMatch(rows, i, uid) ==
  {b \in rows : b.id = i /\ b.user_id = uid /\ RlsVisible(uid, b)}

\* the delete call resolves without error; a removed row is announced by the
\* change feed
DeleteOk(r) ==
  \E i \in deletes[r] :
    /\ deletes' = [deletes EXCEPT ![r] = @ \ {i}]
    /\ db' = db \ DeleteMatch(db, i, user[r])
    /\ IF DeleteMatch(db, i, user[r]) = {}
         THEN /\ UNCHANGED <<inbox, fetches>>
              /\ last' = Step("DeleteOk", r, i)
         ELSE \E row \in DeleteMatch(db, i, user[r]), shape \in ShapesOf("DELETE") :
                /\ fetches' = [q \in Replicas |-> Outdate(fetches[q])]
                /\ Emit("DELETE", row, shape, r)
                /\ last' = [Step("DeleteOk", r, i) EXCEPT
                              !.live = LiveFor(row.user_id),
                              !.lost = {q \in Replicas : Loses(q, "DELETE", row, shape)}]
    /\ UNCHANGED <<nextId, mounted, user, bookmarks, isConnected, chan, effDeps,
                   resubs, channels, inserts,
                   authVars>>

DeleteFailNoFetch(r) ==
  \E i \in deletes[r] :
    /\ deletes' = [deletes EXCEPT ![r] = @ \ {i}]
    /\ mounted[r]
    /\ last' = Step("DeleteFail", r, i)
    /\ UNCHANGED <<db, nextId, mounted, user, bookmarks, isConnected, chan, effDeps,
                   resubs, channels, inbox, fetches, inserts,
                   authVars>>

\* the delete call resolves with an error: if (error) fetchBookmarks()
DeleteFail(r) ==
  \E i \in deletes[r] :
    /\ deletes' = [deletes EXCEPT ![r] = @ \ {i}]
    /\ mounted[r]
    /\ IssueFetch(r, i)
    /\ last' = Step("DeleteFail", r, i)
    /\ UNCHANGED <<db, nextId, mounted, user, bookmarks, isConnected, chan, effDeps,
                   resubs, channels, inbox, inserts,
                   authVars>>

\* ------------------------------------------------------ mount / unmount
UnmountNoCleanup(r) ==
  /\ mounted[r]
  /\ deletes[r] = {} /\ inserts[r] = {} /\ fetches[r] = << >>
  /\ mounted' = [mounted EXCEPT ![r] = FALSE]
  /\ chan' = [chan EXCEPT ![r] = "none"]
  /\ bookmarks' = [bookmarks EXCEPT ![r] = << >>]
  /\ isConnected' = [isConnected EXCEPT ![r] = FALSE]
  /\ inbox' = [inbox EXCEPT ![r] = << >>]
  /\ resubs' = [resubs EXCEPT ![r] = FALSE]
  /\ last' = Step("Unmount", r, NoId)
  /\ UNCHANGED <<db, nextId, user, effDeps, channels, fetches, deletes, inserts,
                   authVars>>

\* The tab leaves the dashboard: effect cleanups run (removeChannel) and the
\* component state is discarded. A response that reaches an unmounted
\* component changes nothing, so the tab is taken to leave once its calls in
\* flight have resolved.
Unmount(r) ==
  /\ mounted[r]
  /\ deletes[r] = {} /\ inserts[r] = {} /\ fetches[r] = << >>
  /\ mounted' = [mounted EXCEPT ![r] = FALSE]
  /\ chan' = [chan EXCEPT ![r] = "none"]
  /\ bookmarks' = [bookmarks EXCEPT ![r] = << >>]
  /\ isConnected' = [isConnected EXCEPT ![r] = FALSE]
  /\ inbox' = [inbox EXCEPT ![r] = << >>]
  /\ resubs' = [resubs EXCEPT ![r] = FALSE]
  /\ channels' = [channels EXCEPT ![r] = RemoveChannel(@, ChannelTopic(user[r]))]
  /\ last' = Step("Unmount", r, NoId)
  /\ UNCHANGED <<db, nextId, user, effDeps, fetches, deletes, inserts,
                   authVars>>

\* DashboardPage renders for user u: the server loads the user's bookmarks,
\* DashboardClient mounts with them and its realtime effect subscribes
Mount(r) ==
  \E u \in UsersOf(r) :
    /\ ~mounted[r]
    /\ mounted' = [mounted EXCEPT ![r] = TRUE]
    /\ user' = [user EXCEPT ![r] = u]
    /\ bookmarks' = [bookmarks EXCEPT ![r] = SelectBookmarks(db, u)]
    /\ effDeps' = [effDeps EXCEPT ![r] = RealtimeDeps(u, SelectBookmarks(db, u))]
    /\ chan' = [chan EXCEPT ![r] = "joining"]
    /\ channels' = [channels EXCEPT ![r] = Append(@, ChannelTopic(u))]
    /\ last' = [Step("Mount", r, NoId) EXCEPT !.switch = (u # user[r])]
    /\ UNCHANGED <<db, nextId, isConnected, resubs, inbox, fetches, deletes, inserts,
                   authVars>>

Next ==
  \E r \in Replicas :
    \/ RequestInsert(r)
    \/ InsertOk(r)
    \/ InsertFail(r)
    \/ HandleDelete(r)
    \/ DeleteOk(r)
    \/ DeleteFail(r)
    \/ FetchServe(r)
    \/ FetchReturn(r)
    \/ FetchFail(r)
    \/ HandleEvent(r)
    \/ LinkEvent(r)
    \/ Unmount(r)
    \/ Mount(r)

Spec == Init /\ [][Next]_vars

\* ------------------------------------------------------------- sign-out
\* The tabs of one user share one auth session. The bookmark state moves
\* only when a tab leaves the dashboard.
appVars == <<db, nextId, mounted, user, bookmarks, isConnected, chan, effDeps,
             resubs, channels, inbox, fetches, deletes, inserts>>

\* UserMenu.handleSignOut up to its await: setSigningOut(true), signOut() sent
\* (the button is disabled while signingOut)
HandleSignOut(r) ==
  /\ mounted[r]
  /\ ~signingOut[r]
  /\ signingOut' = [signingOut EXCEPT ![r] = TRUE]
  /\ signOutCalls' = [signOutCalls EXCEPT ![r] = TRUE]
  /\ last' = Step("HandleSignOut", r, NoId)
  /\ UNCHANGED <<appVars, authEvents, pushes, signedOut>>

SignOutOkNavigating(r) ==
  /\ signOutCalls[r]
  /\ signOutCalls' = [signOutCalls EXCEPT ![r] = FALSE]
  /\ signedOut' = [signedOut EXCEPT ![user[r]] = @ + 1]
  /\ authEvents' = [q \in Replicas |->
                      IF mounted[q] /\ user[q] = user[r]
                        THEN authEvents[q] + 1 ELSE authEvents[q]]
  /\ pushes' = [pushes EXCEPT ![r] = IF mounted[r] THEN @ + 1 ELSE @]
  /\ last' = Step("SignOutOk", r, NoId)
  /\ UNCHANGED <<appVars, signingOut>>

\* signOut() resolves without error: handleSignOut does nothing more, and
\* onAuthStateChange fires SIGNED_OUT in every open dashboard tab of the session
SignOutOk(r) ==
  /\ signOutCalls[r]
  /\ signOutCalls' = [signOutCalls EXCEPT ![r] = FALSE]
  /\ signedOut' = [signedOut EXCEPT ![user[r]] = @ + 1]
  /\ authEvents' = [q \in Replicas |->
                      IF mounted[q] /\ user[q] = user[r]
                        THEN authEvents[q] + 1 ELSE authEvents[q]]
  /\ last' = Step("SignOutOk", r, NoId)
  /\ UNCHANGED <<appVars, signingOut, pushes>>

\* signOut() resolves with an error: setSigningOut(false)
SignOutFail(r) ==
  /\ signOutCalls[r]
  /\ signOutCalls' = [signOutCalls EXCEPT ![r] = FALSE]
  /\ signingOut' = [signingOut EXCEPT ![r] = FALSE]
  /\ last' = [Step("SignOutFail", r, NoId) EXCEPT !.error = TRUE]
  /\ UNCHANGED <<appVars, authEvents, pushes, signedOut>>

\* DashboardClient's onAuthStateChange listener: SIGNED_OUT => router.push("/")
AuthStateChange(r) ==
  /\ mounted[r]
  /\ authEvents[r] > 0
  /\ authEvents' = [authEvents EXCEPT ![r] = @ - 1]
  /\ pushes' = [pushes EXCEPT ![r] = @ + 1]
  /\ last' = Step("SIGNED_OUT", r, NoId)
  /\ UNCHANGED <<appVars, signingOut, signOutCalls, signedOut>>

\* the navigation to "/" completes: the dashboard of the tab unmounts
NavigateHome(r) ==
  /\ pushes[r] > 0
  /\ Unmount(r)

NextAuth ==
  \E r \in Replicas :
    \/ HandleSignOut(r)
    \/ SignOutOk(r)
    \/ SignOutFail(r)
    \/ AuthStateChange(r)
    \/ NavigateHome(r)

SpecAuth == Init /\ [][NextAuth]_vars

\* ================================================================ claims
\* C1: once handleAdd has added record R, or a full-payload insert
\* notification for R.id has been handled, the replica's snapshot holds
\* exactly one element with id R.id, whatever happened before.
C1_OneCopyAfterInsert ==
  (last.op \in {"RequestInsert", "INSERT"} /\ last.id # NoId)
    => Count(bookmarks[last.r], last.id) = 1

\* the notification for the replica's own insert found the record in place
C1_Witness ==
  /\ last.op = "INSERT" /\ last.id # NoId /\ last.own /\ last.had
  /\ Count(bookmarks[last.r], last.id) = 1

\* C2: in every reachable state no two elements of a snapshot share an id.
C2_UniqueIds ==
  \A r \in Replicas : \A k, l \in 1..Len(bookmarks[r]) :
    bookmarks[r][k].id = bookmarks[r][l].id => k = l

\* a fetch result with two records has replaced the snapshot
C2_Witness ==
  /\ last.op = "FetchReturn"
  /\ Len(bookmarks[last.r]) = 2

\* C3: a fetch result is applied only if no later fetch of the replica has
\* been issued since its own (stale results are discarded).
C3_StaleFetchDiscarded == ~(last.op = "FetchReturn" /\ last.stale)

\* C4: a mounted replica keeps the channel it subscribed at mount: the channel
\* is removed only at unmount (an owner change is an unmount and a mount) and
\* is never removed and re-created by a snapshot change, a local insert or
\* delete, or a fetch.
C4_SubscriptionStable ==
  \A r \in Replicas :
    /\ mounted[r] => (chan[r] # "none" /\ ~resubs[r] /\ effDeps[r] = RealtimeDeps(user[r], bookmarks[r]))
    /\ ~mounted[r] => chan[r] = "none"

\* a fetch result has changed the snapshot of a replica whose link is live
C4_Witness ==
  /\ last.op = "FetchReturn"
  /\ bookmarks[last.r] # << >>
  /\ mounted[last.r] /\ IsSubscribed(chan[last.r]) /\ ~resubs[last.r]

\* C5: no insert hint for a row of a listening replica's own user is dropped
\* by a server-side filter.
C5_InsertHintsUnfiltered == ~(last.op = "InsertOk" /\ last.lost # {})

\* C6: the broadcast that follows a successful insert is delivered to every
\* replica whose channel is joined on the owner's topic.
C6_BroadcastDelivered == ~(last.op = "InsertOk" /\ last.unheard # {})

\* C7: when a write of a replica whose link is live has succeeded and nothing
\* is in flight any more (no event, no fetch, no call), every other replica of
\* the owner whose link was live at the write shows the write: an inserted
\* bookmark is in its snapshot, a deleted one is not.
C7_CrossTabSync ==
  (InFlight = 0 /\ last.r \in last.live) =>
    \A q \in last.live \ {last.r} :
      /\ last.op = "InsertOk" => Some(bookmarks[q], last.id)
      /\ last.op = "DeleteOk" => ~Some(bookmarks[q], last.id)

C10_DeleteFailureResync ==
  /\ last.op = "HandleDelete" =>
       (~Some(bookmarks[last.r], last.id) /\ last.id \in deletes[last.r])
  /\ last.op = "DeleteFail" =>
       \E k \in 1..Len(fetches[last.r]) :
         fetches[last.r][k].why = last.id /\ ~fetches[last.r][k].stale
  /\ (last.op = "FetchReturn" /\ last.fresh) =>
       bookmarks[last.r] = SelectBookmarks(db, user[last.r])

\* the fetch issued by the failed delete of a record has put the record back
C10_Witness ==
  /\ last.op = "FetchReturn" /\ last.fresh /\ last.id # NoId
  /\ Some(bookmarks[last.r], last.id)
  /\ bookmarks[last.r] = SelectBookmarks(db, user[last.r])

\* C11: a fetch that fails leaves every snapshot exactly as it was and issues
\* no new fetchBookmarks call: the replica has one call less in flight, no
\* call of its own is added, superseded or answered by the step, and the
\* other replicas' calls are untouched. (A FetchFail step is the only step
\* that changes fetches and leaves the label FetchFail behind.)
C11_FailedFetchLeavesSnapshot ==
  [][(last'.op = "FetchFail" /\ fetches' # fetches) =>
       /\ bookmarks' = bookmarks
       /\ Len(fetches'[last'.r]) = Len(fetches[last'.r]) - 1
       /\ \A k \in 1..Len(fetches'[last'.r]) :
            \E l \in 1..Len(fetches[last'.r]) : fetches'[last'.r][k] = fetches[last'.r][l]
       /\ \A q \in Replicas \ {last'.r} : fetches'[q] = fetches[q]]_vars

\* a fetch failed in a replica that shows a record, and no call of the
\* replica is left in flight
C11_Witness ==
  /\ last.op = "FetchFail"
  /\ bookmarks[last.r] # << >>
  /\ fetches[last.r] = << >>

\* C12: an insert hint reaches every replica of the row's user whose link is
\* live, with the row or redacted; a hint without an id makes the replica
\* call fetchBookmarks; and the call's result, once applied, is the whole
\* snapshot (a list of rows of the store's query, not a merge with what the
\* replica showed).
C12_RedactedInsertFallback ==
  /\ last.op = "InsertOk" =>
       \A q \in last.live :
         \E k \in 1..Len(inbox[q]) :
           /\ inbox[q][k].kind = "INSERT" /\ inbox[q][k].from = last.r
           /\ inbox[q][k].payload.id \in {last.id, NoId}
  /\ (last.op = "INSERT" /\ last.id = NoId) =>
       /\ fetches[last.r] # << >>
       /\ LET f == fetches[last.r][Len(fetches[last.r])]
          IN f.why = NoId /\ ~f.served /\ ~f.stale
  /\ (last.op = "FetchReturn" /\ last.fresh) =>
       bookmarks[last.r] = SelectBookmarks(db, user[last.r])

\* C13: applying a full-payload insert notification twice gives the same
\* snapshot as applying it once: for every snapshot a replica reaches and
\* every row, and for the notification a replica has just handled.
C13_InsertMergeIdempotent ==
  /\ \A r \in Replicas, R \in Rows :
       InsertMerge(InsertMerge(bookmarks[r], R), R) = InsertMerge(bookmarks[r], R)
  /\ (last.op = "INSERT" /\ last.id # NoId) =>
       \A R \in Rows :
         R.id = last.id => InsertMerge(bookmarks[last.r], R) = bookmarks[last.r]

\* the notification of another replica's insert put the record in front of a
\* record the snapshot already held
C13_Witness ==
  /\ last.op = "INSERT" /\ last.id # NoId /\ ~last.own /\ ~last.had
  /\ Len(bookmarks[last.r]) = 2
  /\ Head(bookmarks[last.r]).id = last.id

\* C14: a delete hint for X and a local delete of X may come in either order:
\* after each of them X is not in the snapshot; a hint for an id the snapshot
\* does not hold changes nothing, shows no error and issues no fetch; and the
\* completion of the delete call changes no snapshot and shows no error,
\* whether or not the row was still in the store.
C14_DeleteOrderIndependent ==
  [][/\ (last'.op = "DELETE" /\ last'.id # NoId /\ inbox' # inbox) =>
          /\ ~Some(bookmarks'[last'.r], last'.id)
          /\ ~Some(bookmarks[last'.r], last'.id) => bookmarks' = bookmarks
          /\ ~last'.error
          /\ fetches' = fetches
     /\ (last'.op = "HandleDelete" /\ deletes' # deletes) =>
          ~Some(bookmarks'[last'.r], last'.id)
     /\ (last'.op = "DeleteOk" /\ deletes' # deletes) =>
          /\ bookmarks' = bookmarks
          /\ ~last'.error
          /\ \A row \in db' : row.id # last'.id]_vars

\* the hint for the replica's own delete came after the local removal and
\* left the other record where it was
C14_Witness ==
  /\ last.op = "DELETE" /\ last.id # NoId /\ last.own /\ ~last.had
  /\ bookmarks[last.r] # << >>
  /\ ~Some(bookmarks[last.r], last.id)

\* C15: a local delete and a delete hint take exactly their own id out of the
\* replica's snapshot and leave every other record, and every other replica,
\* as they were; the completion of a delete call changes no snapshot; and
\* taking out two ids gives the same snapshot in either order.
C15_DistinctDeletesCommute ==
  [][/\ ((last'.op = "DELETE" /\ last'.id # NoId /\ inbox' # inbox)
           \/ (last'.op = "HandleDelete" /\ deletes' # deletes)) =>
          bookmarks' = [bookmarks EXCEPT ![last'.r] = FilterOut(@, last'.id)]
     /\ (last'.op = "DeleteOk" /\ deletes' # deletes) => bookmarks' = bookmarks
     /\ \A r \in Replicas : \A a, b \in 1..MaxIds :
          DeleteMerge(DeleteMerge(bookmarks[r], a), b)
            = DeleteMerge(DeleteMerge(bookmarks[r], b), a)]_vars

\* the delete hint for B emptied the snapshot of a replica whose delete call
\* for A is still in flight
C15_Witness ==
  /\ last.op = "DELETE" /\ last.id # NoId /\ ~last.own /\ last.had
  /\ bookmarks[last.r] = << >>
  /\ \E a \in deletes[last.r] : a # last.id

\* C16: when the only replica of a user has applied the result of a fetch
\* that was issued and answered after the last write, and no hint is waiting
\* for it, its snapshot stays equal to the store's rows of the user for as
\* long as no call is started or completed and no tab is opened or closed.
C16_ConvergenceKept ==
  [][(/\ last.op = "FetchReturn" /\ last.fresh /\ last.post
      /\ \A q \in Replicas \ {last.r} : ~(mounted[q] /\ user[q] = user[last.r])
      /\ inbox[last.r] = << >>
      /\ db' = db /\ deletes' = deletes /\ inserts' = inserts /\ mounted' = mounted)
       => bookmarks'[last.r] = SelectBookmarks(db, user[last.r])]_vars

\* C17: in every reachable state a mounted replica's client holds exactly one
\* channel, whose topic is that of the replica's current user, and an
\* unmounted replica's client holds none (so a tab that changes its user has
\* dropped the old channel before the new one exists).
C17_OneSubscription ==
  \A r \in Replicas :
    /\ Len(channels[r]) <= 1
    /\ mounted[r] => channels[r] = <<ChannelTopic(user[r])>>
    /\ ~mounted[r] => channels[r] = << >>

\* a tab has mounted for another user than before and holds that user's channel
C17_Witness ==
  /\ last.op = "Mount" /\ last.switch
  /\ channels[last.r] = <<ChannelTopic(user[last.r])>>

\* C18: in every reachable state every snapshot is ordered by created_at,
\* newest first.
C18_SnapshotOrdered ==
  \A r \in Replicas : \A k, l \in 1..Len(bookmarks[r]) :
    k < l => bookmarks[r][k].created_at >= bookmarks[r][l].created_at

\* C19: in every reachable state every record of a replica's snapshot, and
\* every row of an answer to one of its fetchBookmarks calls, is a row of the
\* replica's own user.
C19_OwnerScoped ==
  \A r \in Replicas :
    /\ \A k \in 1..Len(bookmarks[r]) : bookmarks[r][k].user_id = user[r]
    /\ \A k \in 1..Len(fetches[r]) : \A j \in 1..Len(fetches[r][k].rows) :
         fetches[r][k].rows[j].user_id = user[r]

\* a fetch result was applied while the store held a row of another user
C19_Witness ==
  /\ last.op = "FetchReturn"
  /\ bookmarks[last.r] # << >>
  /\ \E row \in db : row.user_id # user[last.r]

\* C20: the indicator shows "Connecting..." while the channel is joining and
\* "Live" while it is joined, and when a joined channel drops (CLOSED,
\* TIMED_OUT or CHANNEL_ERROR) it shows a third state, neither of the two.
C20_StatusFollowsLink ==
  [][\A r \in Replicas :
       /\ (mounted'[r] /\ chan'[r] = "joining") =>
            Indicator(isConnected'[r]) = "Connecting..."
       /\ (mounted'[r] /\ IsSubscribed(chan'[r])) =>
            Indicator(isConnected'[r]) = "Live"
       /\ (mounted[r] /\ IsSubscribed(chan[r]) /\ chan'[r] = "down") =>
            Indicator(isConnected'[r]) \notin {"Connecting...", "Live"}]_vars

\* ---------------------------------------------------------------------
\* reference for the frame of a removal: the elements of s whose id is not
\* i, in the order s holds them
RECURSIVE WithoutId(_, _)
WithoutId(s, i) ==
  IF s = << >> THEN << >>
  ELSE IF Head(s).id = i THEN WithoutId(Tail(s), i)
  ELSE <<Head(s)>> \o WithoutId(Tail(s), i)

\* every list of up to MaxIds + 1 rows of one user (ids may repeat)
SmallSnapshots ==
  UNION {[1..n -> {R \in Rows : R.user_id = "u1"}] : n \in 0..(MaxIds + 1)}

\* the DELETE listener's updater keeps every other element, in order
DeleteMergeFrame ==
  \A s \in SmallSnapshots : \A i \in 1..(MaxIds + 1) :
    DeleteMerge(s, i) = WithoutId(s, i)

\* C21: a handled delete hint that carries an id takes exactly the elements
\* with that id out of the replica's snapshot (none if it holds none), keeps
\* every other element in its order, touches no other replica and issues no
\* fetch; a handled delete hint issues a fetch only when it carries no id.
C21_DeleteHintFrame ==
  [][/\ DeleteMergeFrame
     /\ (last'.op = "DELETE" /\ inbox' # inbox) =>
          /\ last'.id # NoId =>
               /\ bookmarks' = [bookmarks EXCEPT ![last'.r] = WithoutId(@, last'.id)]
               /\ fetches' = fetches
          /\ fetches' # fetches => last'.id = NoId]_vars

\* the hint of another replica's delete took the record out of a snapshot
\* and left one record
C21_Witness ==
  /\ last.op = "DELETE" /\ last.id # NoId /\ ~last.own /\ last.had
  /\ Len(bookmarks[last.r]) = 1
  /\ deletes[last.r] = {}

\* C23: a mounted replica can handle its oldest waiting notification whatever
\* calls it has in flight; a handler step takes the oldest notification and
\* only that one, and leaves the calls in flight for their own later step;
\* and no other step but the unmount drops a waiting notification.
C23_NotificationsInOrder ==
  [][\A r \in Replicas :
       /\ (mounted[r] /\ inbox[r] # << >>) => ENABLED HandleEvent(r)
       /\ (last'.r = r /\ last'.op \in {"INSERT", "DELETE"} /\ inbox' # inbox) =>
            /\ inbox'[r] = Tail(inbox[r])
            /\ last'.op = Head(inbox[r]).kind
            /\ last'.id = Head(inbox[r]).payload.id
            /\ deletes' = deletes /\ inserts' = inserts
            /\ last'.id # NoId => fetches' = fetches
       /\ (mounted'[r] /\ ~(last'.r = r /\ last'.op \in {"INSERT", "DELETE"}
                            /\ inbox' # inbox)) =>
            /\ Len(inbox'[r]) >= Len(inbox[r])
            /\ SubSeq(inbox'[r], 1, Len(inbox[r])) = inbox[r]]_vars

\* a notification was applied while a fetchBookmarks call of the replica was
\* in flight
C23_Witness ==
  /\ last.op = "INSERT" /\ last.id # NoId /\ ~last.had
  /\ fetches[last.r] # << >>
  /\ Some(bookmarks[last.r], last.id)

\* C24: a subscribe status changes no snapshot, no waiting notification and
\* no call; and each merge gives the snapshot its updater gives for the
\* snapshot before it, which no status enters.
C24_StatusObservational ==
  [][/\ ((chan' # chan \/ isConnected' # isConnected) /\ last' = last) =>
          (bookmarks' = bookmarks /\ inbox' = inbox /\ fetches' = fetches)
     /\ (last'.op = "RequestInsert" /\ inserts' # inserts) =>
          bookmarks'[last'.r] =
            HandleAdd(bookmarks[last'.r], Bookmark(last'.id, user[last'.r], last'.id))
     /\ (last'.op = "HandleDelete" /\ deletes' # deletes) =>
          bookmarks'[last'.r] = FilterOut(bookmarks[last'.r], last'.id)
     /\ (last'.op = "INSERT" /\ last'.id # NoId /\ inbox' # inbox) =>
          bookmarks'[last'.r] =
            InsertMerge(bookmarks[last'.r], Bookmark(last'.id, user[last'.r], last'.id))
     /\ (last'.op = "DELETE" /\ last'.id # NoId /\ inbox' # inbox) =>
          bookmarks'[last'.r] = DeleteMerge(bookmarks[last'.r], last'.id)
     /\ (last'.op = "FetchReturn" /\ fetches' # fetches) =>
          \E k \in 1..Len(fetches[last'.r]) :
            bookmarks'[last'.r] = fetches[last'.r][k].rows]_vars

\* a replica whose link is down shows a record that a notification brought
C24_Witness ==
  /\ last.op = "INSERT" /\ last.id # NoId /\ ~last.had
  /\ chan[last.r] = "down" /\ ~isConnected[last.r]
  /\ Some(bookmarks[last.r], last.id)

\* C25: a fetchBookmarks call is issued only by the handler of a hint without
\* id or by a failed delete; and while nothing is in flight and the user
\* starts nothing, no snapshot changes and no call is issued.
C25_NoPeriodicFetch ==
  [][/\ (\E r \in Replicas : Len(fetches'[r]) > Len(fetches[r])) =>
          \/ (last'.op = "DeleteFail" /\ deletes' # deletes)
          \/ (last'.op \in {"INSERT", "DELETE"} /\ last'.id = NoId /\ inbox' # inbox)
     /\ (InFlight = 0 /\ last' = last) =>
          (bookmarks' = bookmarks /\ fetches' = fetches /\ inbox' = inbox)]_vars

\* a write is stored, nothing is in flight, and a replica of the row's user
\* whose link was live at the write does not show the store's rows
C25_Witness ==
  /\ last.op \in {"InsertOk", "DeleteOk"}
  /\ InFlight = 0
  /\ \E r \in last.live \ {last.r} :
       /\ mounted[r] /\ user[r] = user[last.r]
       /\ bookmarks[r] # SelectBookmarks(db, user[r])

\* C22: a fetch result never undoes what the replica did after the call was
\* issued: a record the replica has added since is still in the snapshot
\* after the result is applied, and a record the replica has removed since,
\* whose delete call has resolved and which the store no longer holds, is
\* not put back by the result.
C22_FetchKeepsLocalMutations ==
  [][(last'.op = "FetchReturn" /\ fetches' # fetches) =>
       \A k \in 1..Len(fetches[last'.r]) :
         (/\ fetches'[last'.r] = Without(fetches[last'.r], k)
          /\ bookmarks'[last'.r] = fetches[last'.r][k].rows) =>
           /\ \A i \in fetches[last'.r][k].added :
                Some(bookmarks[last'.r], i) => Some(bookmarks'[last'.r], i)
           /\ \A i \in fetches[last'.r][k].removed :
                (/\ i \notin deletes[last'.r]
                 /\ \A row \in db : row.id # i
                 /\ ~Some(bookmarks[last'.r], i))
                  => ~Some(bookmarks'[last'.r], i)]_vars

\* C26 (under SpecAuth): every dashboard tab has issued, or has still to
\* issue, exactly one navigation to "/" for each successful signOut of its
\* session, so after the one signOut of a session each of its tabs navigates
\* exactly once and a tab of another session not at all; handleSignOut adds
\* no navigation of its own; and right after a failed signOut the tab's
\* signingOut flag is reset, no call is in flight and nothing was navigated.
C26_SingleNavigator ==
  /\ \A r \in Replicas :
       mounted[r] => pushes[r] + authEvents[r] = signedOut[user[r]]
  /\ \A r \in Replicas :
       (mounted[r] /\ signedOut[user[r]] = 1 /\ authEvents[r] = 0) => pushes[r] = 1
  /\ last.op = "SignOutOk" => (mounted[last.r] => authEvents[last.r] > 0)
  /\ last.op = "SignOutFail" =>
       /\ ~signingOut[last.r] /\ ~signOutCalls[last.r] /\ last.error
       /\ mounted[last.r] => pushes[last.r] = signedOut[user[last.r]] - authEvents[last.r]

\* after one signOut, which the first tab's failed attempt preceded or not,
\* both dashboard tabs of the session have issued their one navigation
C26_Witness ==
  /\ user["t2"] = user["t1"]
  /\ signedOut[user["t1"]] = 1
  /\ \A r \in Replicas : mounted[r] /\ pushes[r] = 1 /\ authEvents[r] = 0
  /\ \E r \in Replicas : ~signingOut[r]

====
